---------------------------- MODULE Spec2Model ----------------------------
(***************************************************************************)
(* The upsert engine of senti-vol (common.py, upsert_to_bq): a batch of    *)
(* loosely typed rows is normalised, cleaned, coerced to the target        *)
(* table's schema, loaded into a staging table and merged into the target  *)
(* with a ROW_NUMBER dedup.  The warehouse (get_table, load job, MERGE     *)
(* query) is the environment: each of its three calls is one step, which   *)
(* may succeed or fail.                                                    *)
(***************************************************************************)
EXTENDS Integers, Sequences, FiniteSets, TLC

(***************************************************************************)
(* Cell values.  A cell is a tagged record [k, v]: k is the Python kind,   *)
(* v the payload.  Instants and dates are day numbers (1 = 2024-01-01),    *)
(* floats are counted in tenths (125 = 12.5).  Four kinds are text         *)
(* (isinstance(x, str)): "str" (literal text), "iso" (the ISO-8601 text of *)
(* an instant), "strof" (str(x) of a non-text value x) and "json"          *)
(* (json.dumps(x)).                                                        *)
(***************************************************************************)
NoneV == [k |-> "null", v |-> "None"]
NaT == [k |-> "null", v |-> "NaT"]
NA == [k |-> "null", v |-> "NA"]
Str(s) == [k |-> "str", v |-> s]
Iso(n) == [k |-> "iso", v |-> n]
StrOf(x) == [k |-> "strof", v |-> x]
Json(x) == [k |-> "json", v |-> x]
IntV(n) == [k |-> "int", v |-> n]
FloatV(t) == [k |-> "float", v |-> t]
BoolV(b) == [k |-> "bool", v |-> b]
Ts(n) == [k |-> "ts", v |-> n]
DateV(n) == [k |-> "date", v |-> n]
Lst(s) == [k |-> "list", v |-> s]
Dict(s) == [k |-> "dict", v |-> s]
Bytes(s) == [k |-> "bytes", v |-> s]

\* pd.isna(x) of a scalar: None, NaN, NaT and pd.NA.
IsNull(x) == x.k = "null"
\* x is None or (isinstance(x, float) and np.isnan(x))
IsNoneOrNaN(x) == x = NoneV
\* isinstance(x, str)
IsStr(x) == x.k \in {"str", "iso", "strof", "json"}
\* isinstance(v, str) and v.strip() == ""
IsBlank(x) == x.k = "str" /\ x.v \in {"", " "}
\* str(x)
str(x) == IF IsStr(x) THEN x ELSE StrOf(x)

\* The numeric texts of the model and their values in tenths.
NumText == [s \in {"9", "7", "12.5", "13.0"} |->
              CASE s = "9" -> 90
                [] s = "7" -> 70
                [] s = "12.5" -> 125
                [] s = "13.0" -> 130]

(***************************************************************************)
(* pd.to_numeric(col, errors="coerce"), cell by cell: numbers, booleans    *)
(* and numeric text parse; everything else becomes NaN.                    *)
(***************************************************************************)
IsNumeric(x) ==
    \/ x.k \in {"int", "float", "bool"}
    \/ x.k = "str" /\ x.v \in DOMAIN NumText
    \/ x.k = "strof" /\ x.v.k \in {"int", "float"}

Tenths(x) ==
    CASE x.k = "int" -> 10 * x.v
      [] x.k = "float" -> x.v
      [] x.k = "bool" -> IF x.v THEN 10 ELSE 0
      [] x.k = "str" -> NumText[x.v]
      [] x.k = "strof" -> IF x.v.k = "int" THEN 10 * x.v.v ELSE x.v.v

\* A parsed number that is not a whole number (12.5).
NonIntegral(x) == IsNumeric(x) /\ Tenths(x) % 10 # 0

\* astype("Int64") of the parsed column raises TypeError ("cannot safely cast
\* non-equivalent float64 to int64") as soon as one cell is non-integral.
int64_raises(cells) == \E x \in cells : NonIntegral(x)

\* One cell of pd.to_numeric(...).astype("Int64"), when the cast does not raise.
to_int64(x) == IF IsNumeric(x) THEN IntV(Tenths(x) \div 10) ELSE NA

\* to_float64 with 0.0 for what does not parse.
to_float64_zero(x) == IF IsNumeric(x) THEN FloatV(Tenths(x)) ELSE FloatV(0)

\* One cell of pd.to_numeric(...).astype("float64").
to_float64(x) == IF IsNumeric(x) THEN FloatV(Tenths(x)) ELSE NoneV

(***************************************************************************)
(* pd.to_datetime(col, utc=True, errors="coerce"), cell by cell.  Instants *)
(* and dates convert, ISO text parses, a number counts nanoseconds from    *)
(* 1970 (which lies before every instant of the model); anything else is   *)
(* NaT.                                                                    *)
(***************************************************************************)
to_datetime(x) ==
    CASE x.k = "ts" -> x
      [] x.k = "iso" -> Ts(x.v)
      [] x.k = "date" -> Ts(x.v)
      [] x.k \in {"int", "float"} -> Ts(0 - 20000)
      [] OTHER -> NaT

\* to_date: pd.isna(v) of a list is an array, and `if` on an array of two or
\* more elements raises ValueError outside the try block.
to_date_raises(x) == x.k = "list" /\ Len(x.v) >= 2

to_date(x) ==
    CASE IsNull(x) -> NoneV
      [] to_datetime(x) # NaT -> DateV(to_datetime(x).v)
      [] OTHER -> NoneV

ensure_string(x) ==
    CASE IsNoneOrNaN(x) -> NoneV
      [] IsStr(x) -> x
      [] x.k \in {"dict", "list"} -> Json(x)
      [] OTHER -> StrOf(x)

ensure_list(x) ==
    CASE x.k = "list" -> Lst([i \in DOMAIN x.v |-> str(x.v[i])])
      [] IsNoneOrNaN(x) -> Lst(<<>>)
      [] OTHER -> Lst(<<str(x)>>)

\* The fallback for any other declared type: bytes are decoded, the rest kept.
decode_bytes(x) == IF x.k = "bytes" THEN Str(x.v) ELSE x

norm_tickers(x) == ensure_list(x)

\* json.dumps raises TypeError on values that are not JSON serialisable.
to_json_text_raises(x) == x.k \in {"ts", "date", "bytes"} \/ x \in {NaT, NA}

to_json_text(x) ==
    CASE x.k \in {"dict", "list"} -> Json(x)
      [] IsNoneOrNaN(x) -> NoneV
      [] IsStr(x) -> x
      [] OTHER -> Json(x)

(***************************************************************************)
(* DataFrames.  A frame is [none, cols, rows]: none stands for df is None, *)
(* cols is df.columns and rows the sequence of rows, each a function from  *)
(* cols to cells.                                                          *)
(***************************************************************************)
NoDf == [none |-> TRUE, cols |-> {}, rows |-> <<>>]
Df(cols, rows) == [none |-> FALSE, cols |-> cols, rows |-> rows]

\* df is None or df.empty
IsEmptyDf(df) == df.none \/ df.cols = {} \/ Len(df.rows) = 0

Cells(df, c) == {df.rows[i][c] : i \in DOMAIN df.rows}

AddCol(df, c, x) ==
    [df EXCEPT !.cols = df.cols \cup {c},
               !.rows = [i \in DOMAIN df.rows |->
                            [d \in df.cols \cup {c} |->
                                IF d = c THEN x ELSE df.rows[i][d]]]]

\* The column names of the model that end with "_at".
AtCols == {"ingested_at", "published_at", "created_at", "seen_at"}

\* lines 133-135: the batch is stamped with the wall clock when it carries no
\* ingested_at column.
stamp_ingested_at(df, now) ==
    IF "ingested_at" \in df.cols THEN df
    ELSE AddCol(df, "ingested_at", Iso(now))

\* lines 138-145
tickers_normalize(df) ==
    IF "tickers" \notin df.cols THEN df
    ELSE [df EXCEPT !.rows = [i \in DOMAIN df.rows |->
             [df.rows[i] EXCEPT !["tickers"] = norm_tickers(@)]]]

\* lines 147-154
raw_raises(df) ==
    "raw" \in df.cols /\ \E x \in Cells(df, "raw") : to_json_text_raises(x)

raw_normalize(df) ==
    IF "raw" \notin df.cols THEN df
    ELSE [df EXCEPT !.rows = [i \in DOMAIN df.rows |->
             [df.rows[i] EXCEPT !["raw"] = to_json_text(@)]]]

\* lines 157-159
ts_cols(df) == (df.cols \cap AtCols) \ {"ingested_at"}

ts_normalize(df) ==
    [df EXCEPT !.rows = [i \in DOMAIN df.rows |->
        [c \in df.cols |-> IF c \in ts_cols(df)
                           THEN to_datetime(df.rows[i][c])
                           ELSE df.rows[i][c]]]]

(***************************************************************************)
(* _clean_df_drop_nulls, lines 54-70.  Blank text becomes None in the      *)
(* object columns (in place, on the frame passed in), then dropna returns  *)
(* a new frame without the all-null rows and without the rows that are     *)
(* null in a required column.  dropna(subset=...) raises KeyError for a    *)
(* name that is no column.                                                 *)
(***************************************************************************)
obj_cols(df) ==
    {c \in df.cols : \E x \in Cells(df, c) :
        x.k \notin {"int", "float", "bool", "ts", "null"}}

blank_to_none(df) ==
    [df EXCEPT !.rows = [i \in DOMAIN df.rows |->
        [c \in df.cols |-> IF c \in obj_cols(df) /\ IsBlank(df.rows[i][c])
                           THEN NoneV
                           ELSE df.rows[i][c]]]]

AllNull(row) == \A c \in DOMAIN row : IsNull(row[c])
NullIn(row, names) == \E c \in names : IsNull(row[c])
KeepSome(row) == ~AllNull(row)

dropna_all(df) == [df EXCEPT !.rows = SelectSeq(df.rows, KeepSome)]

dropna_subset(df, names) ==
    LET Keep(row) == ~NullIn(row, names)
    IN  [df EXCEPT !.rows = SelectSeq(df.rows, Keep)]

clean_raises(df, required_non_null) ==
    /\ ~IsEmptyDf(df)
    /\ required_non_null # {}
    /\ ~(required_non_null \subseteq df.cols)

\* _clean_df_drop_nulls without the dropna of line 68.
clean_keep_null_keys(df, required_non_null) ==
    IF IsEmptyDf(df) THEN df ELSE dropna_all(blank_to_none(df))

clean_df_drop_nulls(df, required_non_null) ==
    IF IsEmptyDf(df) THEN df
    ELSE IF required_non_null # {}
         THEN dropna_subset(dropna_all(blank_to_none(df)), required_non_null)
         ELSE dropna_all(blank_to_none(df))

(***************************************************************************)
(* Schemas.  A schema is [none, fields]: none stands for schema=None,      *)
(* fields maps each field name to [type, mode].                            *)
(***************************************************************************)
Field(t, m) == [type |-> t, mode |-> m]
NoSchema == [none |-> TRUE, fields |-> [c \in {} |-> Field("", "")]]
Schema(f) == [none |-> FALSE, fields |-> f]
Names(schema) == DOMAIN schema.fields

\* Whether x is NULL or a value of the declared type and mode.
IsInstance(x, fld) ==
    IF fld.mode = "REPEATED"
    THEN x.k = "list" /\ \A i \in DOMAIN x.v : IsStr(x.v[i])
    ELSE \/ IsNull(x)
         \/ CASE fld.type = "INT64" -> x.k = "int"
              [] fld.type \in {"FLOAT64", "NUMERIC", "BIGNUMERIC", "DOUBLE"} ->
                    x.k = "float"
              [] fld.type \in {"TIMESTAMP", "DATETIME"} -> x.k = "ts"
              [] fld.type = "DATE" -> x.k = "date"
              [] fld.type \in {"STRING", "JSON"} -> IsStr(x)
              [] fld.type = "BOOL" -> x.k = "bool"
              [] OTHER -> TRUE

(***************************************************************************)
(* The coercion loop, lines 181-241, for one field of target_schema that   *)
(* is a column of the frame.                                               *)
(***************************************************************************)
\* coerce_cell with the rule of the declared type tried before the mode.
coerce_cell_type_first(x, fld) ==
    CASE fld.type = "INT64" -> to_int64(x)
      [] fld.type \in {"FLOAT64", "NUMERIC", "BIGNUMERIC", "DOUBLE"} ->
            to_float64(x)
      [] fld.type \in {"TIMESTAMP", "DATETIME"} -> to_datetime(x)
      [] fld.type = "DATE" -> to_date(x)
      [] fld.type \in {"STRING", "JSON"} -> ensure_string(x)
      [] fld.mode = "REPEATED" -> ensure_list(x)
      [] OTHER -> decode_bytes(x)

coerce_cell(x, fld) ==
    CASE fld.mode = "REPEATED" -> ensure_list(x)
      [] fld.type = "INT64" -> to_int64(x)
      [] fld.type \in {"FLOAT64", "NUMERIC", "BIGNUMERIC", "DOUBLE"} ->
            to_float64(x)
      [] fld.type \in {"TIMESTAMP", "DATETIME"} -> to_datetime(x)
      [] fld.type = "DATE" -> to_date(x)
      [] fld.type \in {"STRING", "JSON"} -> ensure_string(x)
      [] OTHER -> decode_bytes(x)

coerce_col_raises(cells, fld) ==
    CASE fld.mode = "REPEATED" -> FALSE
      [] fld.type = "INT64" -> int64_raises(cells)
      [] fld.type = "DATE" -> \E x \in cells : to_date_raises(x)
      [] OTHER -> FALSE

coerce_raises(df, target_schema) ==
    \E c \in df.cols \cap Names(target_schema) :
        coerce_col_raises(Cells(df, c), target_schema.fields[c])

coerce(df, target_schema) ==
    [df EXCEPT !.rows = [i \in DOMAIN df.rows |->
        [c \in df.cols |-> IF c \in Names(target_schema)
                           THEN coerce_cell(df.rows[i][c],
                                            target_schema.fields[c])
                           ELSE df.rows[i][c]]]]

(***************************************************************************)
(* Lines 124-165 of upsert_to_bq, up to the first warehouse call.          *)
(***************************************************************************)
\* precheck with the two tests in the other order.
precheck_empty_first(df, key_fields) ==
    IF IsEmptyDf(df) THEN "skipped:empty"
    ELSE IF key_fields = {} THEN "ValueError:key_fields"
    ELSE "go"

\* lines 124-131: the key check, then the empty-batch short-circuit.
precheck(df, key_fields) ==
    IF key_fields = {} THEN "ValueError:key_fields"
    ELSE IF IsEmptyDf(df) THEN "skipped:empty"
    ELSE "go"

\* lines 133-159
normalize(df, now) ==
    ts_normalize(raw_normalize(tickers_normalize(stamp_ingested_at(df, now))))

\* after_clean without the short-circuit.
after_clean_no_return(df) == "go"

\* lines 163-165: the short-circuit after cleaning.
after_clean(df) == IF IsEmptyDf(df) THEN "skipped:all_dropped" ELSE "go"

\* The outcome so far ("go": the call goes on to get_table), the working
\* frame, and the frame object of the caller as the in-place assignments of
\* lines 135-159 and of _clean_df_drop_nulls line 61 leave it.
prepare(df, key_fields, now) ==
    LET pre == precheck(df, key_fields)
        n == normalize(df, now)
        cleaned == clean_df_drop_nulls(n, key_fields)
    IN  IF pre # "go"
        THEN [outcome |-> pre, df |-> df, caller_df |-> df]
        ELSE IF raw_raises(df)
        THEN [outcome |-> "TypeError:json.dumps", df |-> df,
              caller_df |-> tickers_normalize(stamp_ingested_at(df, now))]
        ELSE IF clean_raises(n, key_fields)
        THEN [outcome |-> "KeyError:dropna", df |-> n,
              caller_df |-> blank_to_none(n)]
        ELSE [outcome |-> after_clean(cleaned), df |-> cleaned,
              caller_df |-> blank_to_none(n)]

(***************************************************************************)
(* The warehouse.  A table is [cols, rows, fields]: its columns, its rows  *)
(* and the declared fields.  Every null of pandas is NULL in a table.      *)
(***************************************************************************)
NULL == NoneV
sql(x) == IF IsNull(x) THEN NULL ELSE x

EmptyTable == [cols |-> {}, rows |-> <<>>,
               fields |-> [c \in {} |-> Field("", "")]]

\* lines 244-249: the schema of the load job.
job_schema(schema, target_schema) ==
    IF ~schema.none THEN schema ELSE target_schema

\* The load job converts each column named by the job's schema to the declared
\* type and is rejected when a cell is no value of that type.
load_accepts(df, js) ==
    \A c \in df.cols \cap Names(js) :
        \A x \in Cells(df, c) : IsInstance(x, js.fields[c])

\* WRITE_TRUNCATE: the staging table is replaced by the frame.
loaded_table(df, js) ==
    [cols |-> df.cols,
     rows |-> [i \in DOMAIN df.rows |-> [c \in df.cols |-> sql(df.rows[i][c])]],
     fields |-> [c \in df.cols \cap Names(js) |-> js.fields[c]]]

\* lines 258-266
target_cols(target_schema) == Names(target_schema)
usable_cols(df, target_schema) == df.cols \cap target_cols(target_schema)
missing_keys(key_fields, target_schema) ==
    key_fields \ target_cols(target_schema)

\* after_load with the two checks in the other order.
after_load_keys_first(df, key_fields, target_schema) ==
    IF missing_keys(key_fields, target_schema) # {}
    THEN "ValueError:missing_keys"
    ELSE IF usable_cols(df, target_schema) = {}
         THEN "RuntimeError:no_usable_cols"
    ELSE "go"

\* after_load with the missing keys reported as a skip.
after_load_keys_swallowed(df, key_fields, target_schema) ==
    IF usable_cols(df, target_schema) = {} THEN "RuntimeError:no_usable_cols"
    ELSE IF missing_keys(key_fields, target_schema) # {}
         THEN "skipped:missing_keys"
    ELSE "go"

after_load(df, key_fields, target_schema) ==
    IF usable_cols(df, target_schema) = {} THEN "RuntimeError:no_usable_cols"
    ELSE IF missing_keys(key_fields, target_schema) # {}
         THEN "ValueError:missing_keys"
    ELSE "go"

\* lines 269-280: the ORDER BY of ROW_NUMBER; "" stands for rn_partition, the
\* fallback to the key columns.
rn_order(usable) ==
    IF "ingested_at" \in usable THEN "ingested_at"
    ELSE IF "published_at" \in usable THEN "published_at"
    ELSE IF "created_at" \in usable THEN "created_at"
    ELSE ""

non_key_cols(usable, key_fields) == usable \ key_fields

\* SAFE_CAST(x AS TIMESTAMP)
safe_cast_timestamp(x) ==
    CASE x.k = "ts" -> x
      [] x.k = "iso" -> Ts(x.v)
      [] OTHER -> NULL

\* Row a sorts strictly before row b in ORDER BY <order>.  DESC puts NULL
\* last; rows of one partition are equal on the key columns, so the fallback
\* orders no two of them.
sorts_before(a, b, order) ==
    IF order = "" THEN FALSE
    ELSE LET x == safe_cast_timestamp(a[order])
             y == safe_cast_timestamp(b[order])
         IN  ~IsNull(x) /\ (IsNull(y) \/ x.v > y.v)

KeyOf(row, key_fields) == [k \in key_fields |-> row[k]]

\* The rows that ROW_NUMBER may number 1 in the partition of row i: those no
\* row of the partition sorts before.  Among peers the warehouse picks any.
rank1(rows, key_fields, order, g) ==
    {i \in DOMAIN rows :
        /\ KeyOf(rows[i], key_fields) = g
        /\ \A j \in DOMAIN rows :
              KeyOf(rows[j], key_fields) = g =>
                  ~sorts_before(rows[j], rows[i], order)}

\* lines 289-297 with WHERE rn = 1: every way to keep one row per partition.
staging_select(rows, key_fields, order) ==
    LET groups == {KeyOf(rows[i], key_fields) : i \in DOMAIN rows}
    IN  {pick \in [groups -> DOMAIN rows] :
            \A g \in groups : pick[g] \in rank1(rows, key_fields, order, g)}

\* The kept rows, in the order of the staging table.
source_rows(rows, pick) ==
    LET Kept(i) == \E g \in DOMAIN pick : pick[g] = i
        idx == SelectSeq([i \in DOMAIN rows |-> i], Kept)
    IN  [n \in DOMAIN idx |-> rows[idx[n]]]

\* ON T.k = S.k AND ...: NULL equals nothing.
on_clause(t, s, key_fields) ==
    \A k \in key_fields : ~IsNull(t[k]) /\ ~IsNull(s[k]) /\ t[k] = s[k]

\* A MERGE without the WHEN MATCHED clause.
merge_insert_only(T, S, key_fields, usable, tcols) ==
    LET NotMatched(s) == \A i \in DOMAIN T : ~on_clause(T[i], s, key_fields)
        new == SelectSeq(S, NotMatched)
        Ins(s) == [c \in tcols |-> IF c \in usable THEN s[c] ELSE NULL]
    IN  T \o [n \in DOMAIN new |-> Ins(new[n])]

\* A MERGE that replaces a matched row by the staged row, as an insert would
\* write it.
merge_replace_matched(T, S, key_fields, usable, tcols) ==
    LET Matched(t) == \E j \in DOMAIN S : on_clause(t, S[j], key_fields)
        Src(t) == S[CHOOSE j \in DOMAIN S : on_clause(t, S[j], key_fields)]
        Ins(s) == [c \in tcols |-> IF c \in usable THEN s[c] ELSE NULL]
        NotMatched(s) == \A i \in DOMAIN T : ~on_clause(T[i], s, key_fields)
        new == SelectSeq(S, NotMatched)
    IN  [i \in DOMAIN T |-> IF Matched(T[i]) THEN Ins(Src(T[i])) ELSE T[i]]
          \o [n \in DOMAIN new |-> Ins(new[n])]

\* lines 299-323: WHEN MATCHED THEN UPDATE (only when there are non-key
\* columns), WHEN NOT MATCHED THEN INSERT.
merge_sql(T, S, key_fields, usable, tcols) ==
    LET nk == non_key_cols(usable, key_fields)
        Matched(t) == \E j \in DOMAIN S : on_clause(t, S[j], key_fields)
        Src(t) == S[CHOOSE j \in DOMAIN S : on_clause(t, S[j], key_fields)]
        Upd(t) == IF nk # {} /\ Matched(t)
                  THEN [c \in DOMAIN t |-> IF c \in nk THEN Src(t)[c] ELSE t[c]]
                  ELSE t
        NotMatched(s) == \A i \in DOMAIN T : ~on_clause(T[i], s, key_fields)
        new == SelectSeq(S, NotMatched)
        Ins(s) == [c \in tcols |-> IF c \in usable THEN s[c] ELSE NULL]
    IN  [i \in DOMAIN T |-> Upd(T[i])] \o [n \in DOMAIN new |-> Ins(new[n])]

\* The MERGE query is rejected when the staging table lacks a column it
\* names, or declares one with another type than the target does.
merge_rejects(stg, key_fields, usable, live) ==
    \/ ~(usable \cup key_fields \subseteq stg.cols)
    \/ \E c \in usable \cap DOMAIN stg.fields : stg.fields[c] # live.fields[c]
    \/ \E k \in key_fields : live.fields[k].mode = "REPEATED"

(***************************************************************************)
(* A whole call that meets no failure of the warehouse, as a function of   *)
(* its arguments: the staging table it loads and the targets its MERGE can *)
(* leave (one for each way ROW_NUMBER may break its ties).                 *)
(***************************************************************************)
staged_by(df, key_fields, schema, live_schema, now) ==
    loaded_table(coerce(prepare(df, key_fields, now).df, live_schema),
                 job_schema(schema, live_schema))

runs_through(df, key_fields, schema, live_schema, now) ==
    LET p == prepare(df, key_fields, now)
    IN  /\ p.outcome = "go"
        /\ ~coerce_raises(p.df, live_schema)
        /\ load_accepts(coerce(p.df, live_schema),
                        job_schema(schema, live_schema))
        /\ after_load(p.df, key_fields, live_schema) = "go"
        /\ ~merge_rejects(staged_by(df, key_fields, schema, live_schema, now),
                          key_fields, usable_cols(p.df, live_schema),
                          live_schema)

upsert_finals(T, df, key_fields, schema, live_schema, now) ==
    IF ~runs_through(df, key_fields, schema, live_schema, now) THEN {}
    ELSE LET stg == staged_by(df, key_fields, schema, live_schema, now)
             usable == usable_cols(prepare(df, key_fields, now).df, live_schema)
         IN  {merge_sql(T, source_rows(stg.rows, pick), key_fields, usable,
                        Names(live_schema)) :
                 pick \in staging_select(stg.rows, key_fields, rn_order(usable))}

(***************************************************************************)
(* Inputs of the model.                                                    *)
(***************************************************************************)
MaxRows == 2

BoundedSeq(S, n) == UNION {[1..m -> S] : m \in 0..n}

\* A target shaped like news_articles and one keyed by a number.
NewsSchema ==
    Schema([id |-> Field("STRING", "NULLABLE"),
            amount |-> Field("FLOAT64", "NULLABLE"),
            published_at |-> Field("TIMESTAMP", "NULLABLE"),
            ingested_at |-> Field("TIMESTAMP", "NULLABLE")])
CounterSchema ==
    Schema([id |-> Field("INT64", "NULLABLE"),
            amount |-> Field("FLOAT64", "NULLABLE"),
            ingested_at |-> Field("TIMESTAMP", "NULLABLE")])

PlainRows ==
    {[id |-> Str(i), amount |-> Str(a)] :
        i \in {"a", "7", ""}, a \in {"12.5", "13.0"}}
IngestedRows ==
    {[id |-> Str("a"), amount |-> Str(a), ingested_at |-> Ts(t)] :
        a \in {"12.5", "13.0"}, t \in {1, 2}}
PublishedRows ==
    {[id |-> Str("a"), amount |-> Str(a), published_at |-> Iso(t)] :
        a \in {"12.5", "13.0"}, t \in {1, 2}}

Frames(cols, rows, n) == {Df(cols, r) : r \in BoundedSeq(rows, n)}

Batches ==
    {NoDf} \cup Frames({"id", "amount"}, PlainRows, MaxRows)
           \cup Frames({"id", "amount", "ingested_at"}, IngestedRows, MaxRows)
           \cup Frames({"id", "amount", "published_at"}, PublishedRows, MaxRows)

Args(B, K, S) ==
    {[df |-> b, key_fields |-> k, schema |-> s] : b \in B, k \in K, s \in S}

\* The calls of the model: any batch with or without key_fields, with or
\* without an explicit schema.
Calls == Args(Batches, {{}, {"id"}}, {NoSchema, NewsSchema})

\* The batch of an earlier run, which left the tables as the call finds them.
SeedBatch == Df({"id", "amount"}, <<[id |-> Str("7"), amount |-> Str("9")]>>)

Runs == {"A", "B"}

\* The exceptions a call of the warehouse client may raise, by their text.
WarehouseErrors == {"NotFound", "BadRequest"}

\* line 175: the text of the RuntimeError, which embeds that of the cause.
unable_to_fetch(e) == <<"Unable to fetch target table schema", e>>

(***************************************************************************)
(* State.  live is the schema of the target table and target its rows;     *)
(* staging is the staging table; clock is the wall clock.  run[r] is one   *)
(* invocation of upsert_to_bq: its arguments (df0, key_fields, schema),    *)
(* its locals (now, df, target_schema), where it stands (pc), how it ended *)
(* (outcome), the caller's frame object after the call (caller_df), and,   *)
(* for the properties, the warehouse calls it made and the tables as they  *)
(* were when it started, the warehouse call that failed (failed), the      *)
(* exception it raised (error) and the text of the exception that leaves   *)
(* the call (message), the staging table its MERGE read (read), the runs   *)
(* that were in progress when it started (concurrent) and the value it     *)
(* returned (returned, "None" once it has returned).                       *)
(* job is one HTTP request to the entry point of main.py with the script   *)
(* it runs: the source asked for, the pages of the script, the pages done  *)
(* (idx), the pages handed to upsert_to_bq in the order of the calls       *)
(* (upserted), whether each call raised (raised), what each page counted   *)
(* (counts), the total                                                     *)
(* the script reports, the exit code of the subprocess and the status of   *)
(* the response.  fetch is one call of fetch_series of fred_ingest.py: the *)
(* attempts made, the requests and the sleeps in the order they happened   *)
(* (log), the backoff, the observations of the response that succeeded and *)
(* the rows of the table returned.                                         *)
(***************************************************************************)
VARIABLES live, target, staging, clock, run, job, fetch
vars == <<live, target, staging, clock, run, job, fetch>>

NoJob ==
    [pc |-> "idle", source |-> "", script |-> "", pages |-> <<>>, idx |-> 0,
     upserted |-> <<>>, raised |-> <<>>, counts |-> <<>>,
     total_ingested |-> 0,
     exit_code |-> 0, status |-> 0]

NoFetch ==
    [pc |-> "idle", series_id |-> "", max_retries |-> 0, attempt |-> 0,
     backoff |-> 0, log |-> <<>>, obs |-> <<>>, rows |-> <<>>]

Idle ==
    [pc |-> "idle", df0 |-> NoDf, key_fields |-> {}, schema |-> NoSchema,
     now |-> 0, df |-> NoDf, caller_df |-> NoDf, target_schema |-> NoSchema,
     outcome |-> "none", fetched |-> 0, loaded |-> 0, merged |-> 0,
     before |-> [target |-> <<>>, staging |-> EmptyTable],
     failed |-> "", error |-> "", message |-> <<>>, read |-> EmptyTable,
     concurrent |-> {}, returned |-> ""]

\* The tables are empty, or as an earlier run of the seed batch left them.
InitTables(schemas) ==
    /\ live \in schemas
    /\ \/ /\ target = <<>>
          /\ staging = EmptyTable
          /\ clock = 0
       \/ /\ target \in upsert_finals(<<>>, SeedBatch, {"id"}, NoSchema, live, 1)
          /\ staging = staged_by(SeedBatch, {"id"}, NoSchema, live, 1)
          /\ clock = 1
    /\ run = [r \in Runs |-> Idle]
    /\ job = NoJob /\ fetch = NoFetch

Init == InitTables({NewsSchema, CounterSchema})

\* upsert_to_bq(target_table, df, schema, key_fields, staging_table) is
\* called: lines 124-165.
Start(r, df, key_fields, schema) ==
    LET now == clock + 1
        p == prepare(df, key_fields, now)
    IN  /\ clock' = now
        /\ run' = [run EXCEPT ![r] =
              [pc |-> IF p.outcome = "go" THEN "fetch" ELSE "done",
               df0 |-> df, key_fields |-> key_fields, schema |-> schema,
               now |-> now, df |-> p.df, caller_df |-> p.caller_df,
               target_schema |-> NoSchema,
               outcome |-> IF p.outcome = "go" THEN "none" ELSE p.outcome,
               fetched |-> 0, loaded |-> 0, merged |-> 0,
               before |-> [target |-> target, staging |-> staging],
               failed |-> "", error |-> "", message |-> <<>>,
               read |-> EmptyTable,
               concurrent |-> {q \in Runs \ {r} :
                                 run[q].pc \notin {"idle", "done"}},
               returned |-> IF p.outcome \in {"skipped:empty",
                                              "skipped:all_dropped"}
                            THEN "None" ELSE ""]]
        /\ UNCHANGED <<job, fetch, live, target, staging>>

Call(r, calls) ==
    /\ run[r].pc = "idle"
    /\ \E c \in calls : Start(r, c.df, c.key_fields, c.schema)

\* lines 172-241: client.get_table succeeds, then the coercion loop.
FetchOk(r) ==
    /\ run[r].pc = "fetch"
    /\ LET raises == coerce_raises(run[r].df, live)
       IN  run' = [run EXCEPT
              ![r].fetched = @ + 1,
              ![r].target_schema = live,
              ![r].df = IF raises THEN @ ELSE coerce(@, live),
              ![r].pc = IF raises THEN "done" ELSE "load",
              ![r].outcome = IF raises THEN "Error:coerce" ELSE @]
    /\ UNCHANGED <<job, fetch, live, target, staging, clock>>

\* FetchFail with the exception swallowed: the call goes on without a schema.
FetchFailSwallowed(r) ==
    /\ run[r].pc = "fetch"
    /\ \E e \in WarehouseErrors :
          run' = [run EXCEPT ![r].fetched = @ + 1, ![r].pc = "load",
                             ![r].failed = "get_table", ![r].error = e]
    /\ UNCHANGED <<job, fetch, live, target, staging, clock>>

\* lines 174-175: client.get_table raises.
FetchFail(r) ==
    /\ run[r].pc = "fetch"
    /\ \E e \in WarehouseErrors :
          run' = [run EXCEPT ![r].fetched = @ + 1, ![r].pc = "done",
                             ![r].outcome = "RuntimeError:get_table",
                             ![r].failed = "get_table", ![r].error = e,
                             ![r].message = unable_to_fetch(e)]
    /\ UNCHANGED <<job, fetch, live, target, staging, clock>>

\* LoadOk with write_disposition WRITE_APPEND: the rows are added to those
\* the staging table holds.
LoadOkAppend(r) ==
    /\ run[r].pc = "load"
    /\ LET js == job_schema(run[r].schema, run[r].target_schema)
           chk == after_load(run[r].df, run[r].key_fields, run[r].target_schema)
           new == loaded_table(run[r].df, js)
       IN  /\ load_accepts(run[r].df, js)
           /\ staging' = [new EXCEPT !.rows = staging.rows \o new.rows]
           /\ run' = [run EXCEPT
                 ![r].loaded = @ + 1,
                 ![r].pc = IF chk = "go" THEN "merge" ELSE "done",
                 ![r].outcome = IF chk = "go" THEN @ ELSE chk]
    /\ UNCHANGED <<job, fetch, live, target, clock>>

\* lines 243-266: the load job succeeds, then the checks of the plan.
LoadOk(r) ==
    /\ run[r].pc = "load"
    /\ LET js == job_schema(run[r].schema, run[r].target_schema)
           chk == after_load(run[r].df, run[r].key_fields, run[r].target_schema)
       IN  /\ load_accepts(run[r].df, js)
           /\ staging' = loaded_table(run[r].df, js)
           /\ run' = [run EXCEPT
                 ![r].loaded = @ + 1,
                 ![r].pc = IF chk = "go" THEN "merge" ELSE "done",
                 ![r].outcome = IF chk = "go" THEN @ ELSE chk]
    /\ UNCHANGED <<job, fetch, live, target, clock>>

\* LoadFail with the exception dropped: the call goes on to its MERGE.
LoadFailContinues(r) ==
    /\ run[r].pc = "load"
    /\ \E e \in WarehouseErrors :
          run' = [run EXCEPT ![r].loaded = @ + 1, ![r].pc = "merge",
                             ![r].failed = "load", ![r].error = e]
    /\ UNCHANGED <<job, fetch, live, target, staging, clock>>

\* line 254: load_job.result() raises.
LoadFail(r) ==
    /\ run[r].pc = "load"
    /\ \E e \in WarehouseErrors :
          run' = [run EXCEPT ![r].loaded = @ + 1, ![r].pc = "done",
                             ![r].outcome = "Error:load",
                             ![r].failed = "load", ![r].error = e,
                             ![r].message = <<e>>]
    /\ UNCHANGED <<job, fetch, live, target, staging, clock>>

\* MergeOk reading the staging table as it was when the call started.
MergeOkStale(r) ==
    /\ run[r].pc = "merge"
    /\ LET usable == usable_cols(run[r].df, run[r].target_schema)
           keys == run[r].key_fields
           old == run[r].before.staging
       IN  /\ ~merge_rejects(old, keys, usable, live)
           /\ \E pick \in staging_select(old.rows, keys, rn_order(usable)) :
                 target' = merge_sql(target, source_rows(old.rows, pick),
                                     keys, usable, Names(live))
           /\ run' = [run EXCEPT ![r].merged = @ + 1, ![r].pc = "done",
                                 ![r].outcome = "applied", ![r].read = old,
                                 ![r].returned = "None"]
    /\ UNCHANGED <<job, fetch, live, staging, clock>>

\* lines 268-333: the MERGE query succeeds.
MergeOk(r) ==
    /\ run[r].pc = "merge"
    /\ LET usable == usable_cols(run[r].df, run[r].target_schema)
           keys == run[r].key_fields
       IN  /\ ~merge_rejects(staging, keys, usable, live)
           /\ \E pick \in staging_select(staging.rows, keys, rn_order(usable)) :
                 target' = merge_sql(target, source_rows(staging.rows, pick),
                                     keys, usable, Names(live))
    /\ run' = [run EXCEPT ![r].merged = @ + 1, ![r].pc = "done",
                          ![r].outcome = "applied", ![r].read = staging,
                          ![r].returned = "None"]
    /\ UNCHANGED <<job, fetch, live, staging, clock>>

\* MergeFail with the exception absorbed after the print of line 331.
MergeFailAbsorbed(r) ==
    /\ run[r].pc = "merge"
    /\ \E e \in WarehouseErrors :
          run' = [run EXCEPT ![r].merged = @ + 1, ![r].pc = "done",
                             ![r].outcome = "applied",
                             ![r].failed = "merge", ![r].error = e,
                             ![r].read = staging, ![r].returned = "None"]
    /\ UNCHANGED <<job, fetch, live, target, staging, clock>>

\* lines 327-332: merge_job.result() raises; the statement is atomic.
MergeFail(r) ==
    /\ run[r].pc = "merge"
    /\ \E e \in WarehouseErrors :
          run' = [run EXCEPT ![r].merged = @ + 1, ![r].pc = "done",
                             ![r].outcome = "Error:merge",
                             ![r].failed = "merge", ![r].error = e,
                             ![r].message = <<e>>, ![r].read = staging]
    /\ UNCHANGED <<job, fetch, live, target, staging, clock>>

\* The steps of a call once it is started.
Proceed(r) ==
    \/ FetchOk(r)
    \/ FetchFail(r)
    \/ LoadOk(r)
    \/ LoadFail(r)
    \/ MergeOk(r)
    \/ MergeFail(r)

\* One call of upsert_to_bq, from tables an earlier run may have left.
Next == Call("A", Calls) \/ Proceed("A")

Spec == Init /\ [][Next]_vars

(***************************************************************************)
(* Properties of one call (Spec).                                          *)
(***************************************************************************)
Skipped == {"skipped:empty", "skipped:all_dropped"}
Started(r) == run[r].pc # "idle"
Untouched(r) ==
    target = run[r].before.target /\ staging = run[r].before.staging

\* C2 (key enforcement): once a call has been applied, no row of the target is
\* null in a column of key_fields.
C2_NoNullKeyInTarget ==
    \A r \in Runs :
        run[r].outcome = "applied" =>
            \A i \in DOMAIN target : ~NullIn(target[i], run[r].key_fields)

\* C4 (recency convergence within a run): when two rows of the batch have the
\* same key, different values and different valid timestamps in the batch's
\* recency column (the first of ingested_at, published_at, created_at it
\* carries), then after the call is applied the target row of that key holds
\* the values of the latest of them.
C4_LaterRowWins ==
    \A r \in Runs :
        run[r].outcome = "applied" =>
            LET rc == rn_order(run[r].df0.cols)
                keys == run[r].key_fields
                S == staging.rows
                cols == usable_cols(run[r].df0, live)
                Same(i, j) == KeyOf(S[i], keys) = KeyOf(S[j], keys)
            IN  rc # "" =>
                \A i \in DOMAIN S :
                    (/\ ~NullIn(S[i], keys)
                     /\ \E j \in DOMAIN S : Same(i, j) /\ j # i
                     /\ \A j \in DOMAIN S \ {i} :
                           Same(i, j) =>
                               /\ ~IsNull(safe_cast_timestamp(S[j][rc]))
                               /\ sorts_before(S[i], S[j], rc)
                               /\ \E c \in cols \ (keys \cup {rc}) :
                                     S[i][c] # S[j][c])
                    => \E n \in DOMAIN target :
                          /\ on_clause(target[n], S[i], keys)
                          /\ \A c \in cols : target[n][c] = S[i][c]

\* The batch of run r is empty after the normalisation and the cleaning of
\* lines 133-162.
EmptiedByCleaning(r) ==
    LET n == normalize(run[r].df0, run[r].now)
    IN  /\ ~IsEmptyDf(run[r].df0)
        /\ ~clean_raises(n, run[r].key_fields)
        /\ IsEmptyDf(clean_df_drop_nulls(n, run[r].key_fields))

\* C5 (empty-batch no-op): a call with key_fields whose batch is None or
\* empty, or is empty after blank-to-null conversion and the dropping of the
\* rows with a null key, ends skipped without raising; it makes no warehouse
\* call (no get_table, no load, no MERGE) and staging and target are as they
\* were.
C5_EmptyBatchNoOp ==
    \A r \in Runs :
        (/\ Started(r)
         /\ run[r].key_fields # {}
         /\ IsEmptyDf(run[r].df0) \/ EmptiedByCleaning(r))
        => /\ run[r].pc = "done"
           /\ run[r].outcome \in Skipped
           /\ run[r].fetched = 0 /\ run[r].loaded = 0 /\ run[r].merged = 0
           /\ Untouched(r)

\* A batch whose only rows carry a blank key was skipped, over a target that
\* holds a row.
C5_Witness ==
    /\ run["A"].outcome = "skipped:all_dropped"
    /\ Len(run["A"].df0.rows) > 0
    /\ target # <<>>

\* C9 (key_fields required): a call without key_fields (None or []) ends with
\* the ValueError of line 125 whatever the batch, the None and the empty batch
\* included; it makes no warehouse call and leaves staging and target as they
\* were.
C9_NoKeyFieldsRejected ==
    \A r \in Runs :
        (Started(r) /\ run[r].key_fields = {})
        => /\ run[r].pc = "done"
           /\ run[r].outcome = "ValueError:key_fields"
           /\ run[r].fetched = 0 /\ run[r].loaded = 0 /\ run[r].merged = 0
           /\ Untouched(r)

\* The empty batch without key_fields was rejected, not skipped.
C9_Witness ==
    /\ run["A"].pc = "done"
    /\ run["A"].key_fields = {}
    /\ IsEmptyDf(run["A"].df0)
    /\ run["A"].outcome = "ValueError:key_fields"

\* C10 (explicit schema wins): a call given an explicit schema never fetches
\* the live schema of the target, so it cannot end with the get_table error,
\* and the schema that drives its coercion is the explicit one.
C10_ExplicitSchemaWins ==
    \A r \in Runs :
        ~run[r].schema.none =>
            /\ run[r].fetched = 0
            /\ run[r].outcome # "RuntimeError:get_table"
            /\ run[r].target_schema.none \/ run[r].target_schema = run[r].schema

(***************************************************************************)
(* Two runs in succession (SpecRuns): run A, and once it has returned,     *)
(* run B, against the same target and staging tables.                      *)
(***************************************************************************)
MaxRunRows == 1

RunRows ==
    {[id |-> Str("a"), amount |-> Str(a)] : a \in {"12.5", "13.0"}}

RunCalls ==
    Args(Frames({"id", "amount"}, RunRows, MaxRunRows)
           \cup Frames({"id", "amount", "ingested_at"}, IngestedRows,
                       MaxRunRows),
         {{"id"}}, {NoSchema})

NextRuns ==
    \/ Call("A", RunCalls)
    \/ Proceed("A")
    \/ (run["A"].pc = "done" /\ Call("B", RunCalls))
    \/ Proceed("B")

SpecRuns == Init /\ [][NextRuns]_vars

Applied(r) == run[r].outcome = "applied"
SameCall(r, q) ==
    /\ run[r].df0 = run[q].df0
    /\ run[r].key_fields = run[q].key_fields
    /\ run[r].schema = run[q].schema

\* C1 (idempotence): when run B repeats the call of run A (same batch, same
\* key_fields) right after it, and both are applied, the target after B has
\* exactly the rows, in every column, that it had after A alone.
C1_SecondRunChangesNothing ==
    (Applied("A") /\ Applied("B") /\ SameCall("A", "B"))
        => target = run["B"].before.target

OneRowPerKey(T, key_fields) ==
    \A i, j \in DOMAIN T :
        KeyOf(T[i], key_fields) = KeyOf(T[j], key_fields) => i = j

\* C3 (at most one row per key): the target starts with at most one row per
\* combination of key values, and after any sequence of calls with key_fields
\* [id] it still has at most one row per combination of values of id.
C3_OneRowPerKey == OneRowPerKey(target, {"id"})

\* The rows of T whose key is that of row s.
RowsOfKey(T, s, key_fields) ==
    {T[i] : i \in {n \in DOMAIN T : KeyOf(T[n], key_fields) =
                                    KeyOf(s, key_fields)}}

\* C8 (convergence across runs): when runs A and B each bring one row of the
\* same non-null key, with different values and different ingested_at, and
\* both are applied, the target rows of that key are the same as if B had
\* run first and A second from the same starting target.
C8_OrderOfRunsIrrelevant ==
    LET a == run["A"]
        b == run["B"]
        keys == a.key_fields
    IN  (/\ Applied("A") /\ Applied("B")
         /\ Len(a.df0.rows) = 1 /\ Len(b.df0.rows) = 1
         /\ "ingested_at" \in a.df0.cols \cap b.df0.cols
         /\ keys = b.key_fields
         /\ KeyOf(a.df0.rows[1], keys) = KeyOf(b.df0.rows[1], keys)
         /\ a.df0.rows[1].amount # b.df0.rows[1].amount
         /\ a.df0.rows[1].ingested_at # b.df0.rows[1].ingested_at
         /\ \A i \in DOMAIN target : ~NullIn(target[i], keys))
        => \A T1 \in upsert_finals(a.before.target, b.df0, keys, b.schema,
                                   live, a.now) :
              \A T2 \in upsert_finals(T1, a.df0, keys, a.schema, live, b.now) :
                  RowsOfKey(T2, staging.rows[1], keys) =
                      RowsOfKey(target, staging.rows[1], keys)

(***************************************************************************)
(* The example of the specification (SpecExample): one call with key       *)
(* [id] against an empty target {id STRING, amount FLOAT64, seen_at        *)
(* TIMESTAMP}; the batches are made of the three rows of the example.      *)
(***************************************************************************)
MaxExampleRows == 3

ExampleSchema ==
    Schema([id |-> Field("STRING", "NULLABLE"),
            amount |-> Field("FLOAT64", "NULLABLE"),
            seen_at |-> Field("TIMESTAMP", "NULLABLE")])

ExampleRow(i, a, t) == [id |-> Str(i), amount |-> Str(a), seen_at |-> Iso(t)]

ExampleBatch ==
    Df({"id", "amount", "seen_at"},
       <<ExampleRow("a", "12.5", 1), ExampleRow("a", "13.0", 2),
         ExampleRow("", "9", 1)>>)

ExampleCalls ==
    Args(Frames({"id", "amount", "seen_at"},
                {ExampleBatch.rows[i] : i \in DOMAIN ExampleBatch.rows},
                MaxExampleRows),
         {{"id"}}, {NoSchema, ExampleSchema})

InitExample ==
    /\ live = ExampleSchema
    /\ target = <<>>
    /\ staging = EmptyTable
    /\ clock = 0
    /\ run = [r \in Runs |-> Idle]
    /\ job = NoJob /\ fetch = NoFetch

NextExample == Call("A", ExampleCalls) \/ Proceed("A")

SpecExample == InitExample /\ [][NextExample]_vars

ExampleApplied == Applied("A") /\ run["A"].df0 = ExampleBatch

EarlierRow == [id |-> Str("a"), amount |-> FloatV(125), seen_at |-> Ts(1)]
LaterRow == [id |-> Str("a"), amount |-> FloatV(130), seen_at |-> Ts(2)]

MaxCoerceRows == 1

CoerceFields ==
    {Field(t, "NULLABLE") :
        t \in {"INT64", "FLOAT64", "NUMERIC", "TIMESTAMP", "DATETIME", "DATE",
               "STRING", "JSON"}}
      \cup {Field(t, "REPEATED") : t \in {"STRING", "INT64", "TIMESTAMP"}}

CoerceSchemas ==
    {Schema([id |-> Field("STRING", "NULLABLE"), value |-> f]) :
        f \in CoerceFields}

CellValues ==
    {NoneV, BoolV(TRUE), IntV(7), FloatV(125), Str("13.0"), Str("12.5"),
     Str("N/A"), Ts(1), DateV(1), Lst(<<Str("x"), Str("y")>>),
     Lst(<<IntV(7), Str("y")>>), Dict("d"), Bytes("b")}

CoerceCalls ==
    Args(Frames({"id", "value"},
                {[id |-> Str("a"), value |-> v] : v \in CellValues},
                MaxCoerceRows),
         {{"id"}}, {NoSchema})

InitCoerce ==
    /\ live \in CoerceSchemas
    /\ target = <<>>
    /\ staging = EmptyTable
    /\ clock = 0
    /\ run = [r \in Runs |-> Idle]
    /\ job = NoJob /\ fetch = NoFetch

NextCoerce == Call("A", CoerceCalls) \/ Proceed("A")

SpecCoerce == InitCoerce /\ [][NextCoerce]_vars

\* C7 (coercion is total): the coercion loop never raises, and after it every
\* cell of a column the target declares is a value of the declared type or
\* null.
C7_CoercionTotal ==
    \A r \in Runs :
        /\ run[r].outcome # "Error:coerce"
        /\ run[r].pc \in {"load", "merge"} =>
              \A c \in run[r].df.cols \cap Names(run[r].target_schema) :
                  \A x \in Cells(run[r].df, c) :
                      IsInstance(x, run[r].target_schema.fields[c])

(***************************************************************************)
(* Failures of the warehouse (Spec).                                       *)
(***************************************************************************)
\* C11 (schema fetch failure): when get_table fails the call ends with the
\* RuntimeError of line 175, whose text carries that of the underlying
\* exception; no load and no MERGE were run, and staging and target are as
\* they were.
C11_FetchFailureIsFatal ==
    \A r \in Runs :
        run[r].failed = "get_table" =>
            /\ run[r].pc = "done"
            /\ run[r].outcome = "RuntimeError:get_table"
            /\ run[r].message = unable_to_fetch(run[r].error)
            /\ run[r].returned = ""
            /\ run[r].loaded = 0 /\ run[r].merged = 0
            /\ Untouched(r)

\* get_table failed for a batch with rows, over tables an earlier run filled.
C11_Witness ==
    /\ run["A"].failed = "get_table"
    /\ Len(run["A"].df.rows) > 0
    /\ target # <<>> /\ staging.rows # <<>>

\* C12 (merge failure is never absorbed): when the MERGE job fails the call
\* ends with that exception re-raised, never applied nor skipped and without
\* a return value, and the target is as it was before the call.
C12_MergeFailureRaised ==
    \A r \in Runs :
        run[r].failed = "merge" =>
            /\ run[r].pc = "done"
            /\ run[r].outcome = "Error:merge"
            /\ run[r].message = <<run[r].error>>
            /\ run[r].returned = ""
            /\ target = run[r].before.target

\* The MERGE failed over a target with a row, after a load of rows that it
\* would have written.
C12_Witness ==
    /\ run["A"].failed = "merge"
    /\ run["A"].before.target # <<>>
    /\ staging.rows # <<>>
    /\ \E T \in upsert_finals(run["A"].before.target, run["A"].df0,
                              run["A"].key_fields, run["A"].schema, live,
                              run["A"].now) : T # target

(***************************************************************************)
(* The staging table across runs (SpecRuns).                               *)
(***************************************************************************)
LoadedOk(r) == run[r].loaded = 1 /\ run[r].failed # "load"

\* No other run was called after run r.
Latest(r) == \A q \in Runs \ {r} : Started(q) => run[q].now < run[r].now

\* C13 (truncate-and-load, no cross-run state): once the latest run has
\* loaded, the staging table is exactly the coerced surviving rows of its
\* batch, whatever the table held before; and once it is applied the target
\* is one that the call yields from the target it found and its arguments
\* alone, so two executions that differ only in the prior staging contents
\* end with the same targets.
C13_StagingOwnedByRun ==
    \A r \in Runs :
        (Latest(r) /\ LoadedOk(r)) =>
            /\ staging = staged_by(run[r].df0, run[r].key_fields,
                                   run[r].schema, live, run[r].now)
            /\ Applied(r) =>
                  target \in upsert_finals(run[r].before.target, run[r].df0,
                                           run[r].key_fields, run[r].schema,
                                           live, run[r].now)

\* Run B was applied over a staging table that held a row of run A which is
\* no row of B's batch, and it changed the target.
C13_Witness ==
    /\ Applied("B")
    /\ LoadedOk("A")
    /\ \E i \in DOMAIN run["B"].before.staging.rows :
          \A j \in DOMAIN staging.rows :
              run["B"].before.staging.rows[i] # staging.rows[j]
    /\ target # run["B"].before.target

(***************************************************************************)
(* Key columns and usable columns (SpecKeys): one call whose key_fields    *)
(* may name a column the batch or the target lacks, against a target that  *)
(* may share no column with the batch.                                     *)
(***************************************************************************)
\* A target that has none of the columns of the batches, ingested_at
\* included.
QuoteSchema ==
    Schema([ticker |-> Field("STRING", "NULLABLE"),
            close |-> Field("FLOAT64", "NULLABLE")])
QuoteRow == [ticker |-> Str("T"), close |-> FloatV(90)]

IdRows == {[id |-> Str(i), amount |-> Str("12.5")] : i \in {"a", ""}}
UidRows == {[uid |-> Str(i), amount |-> Str("12.5")] : i \in {"u", ""}}

KeyCalls ==
    Args({NoDf} \cup Frames({"id", "amount"}, IdRows, MaxRows)
                \cup Frames({"uid", "amount"}, UidRows, MaxRows),
         {{"id"}, {"uid"}}, {NoSchema, NewsSchema})

InitKeys ==
    \/ InitTables({NewsSchema})
    \/ /\ live = QuoteSchema
       /\ target \in {<<>>, <<QuoteRow>>}
       /\ staging = EmptyTable
       /\ clock = 0
       /\ run = [r \in Runs |-> Idle]
       /\ job = NoJob /\ fetch = NoFetch

NextKeys == Call("A", KeyCalls) \/ Proceed("A")

SpecKeys == InitKeys /\ [][NextKeys]_vars

\* Run r has ended, no call of the warehouse failed, and a key column is no
\* column of the target.
EndedWithMissingKey(r) ==
    /\ run[r].pc = "done"
    /\ run[r].failed = ""
    /\ missing_keys(run[r].key_fields, live) # {}

C15_NoUsableColumnsRaises ==
    \A r \in Runs :
        (/\ run[r].pc \in {"merge", "done"}
         /\ LoadedOk(r)
         /\ usable_cols(run[r].df, run[r].target_schema) = {})
        => /\ run[r].pc = "done"
           /\ run[r].outcome = "RuntimeError:no_usable_cols"
           /\ run[r].returned = ""
           /\ run[r].merged = 0
           /\ target = run[r].before.target

\* A batch with rows that shares no column with the target was loaded and
\* rejected, over a target with a row.
C15_Witness ==
    /\ run["A"].outcome = "RuntimeError:no_usable_cols"
    /\ Len(run["A"].df.rows) > 0
    /\ target = <<QuoteRow>>

\* C19 (the normaliser never raises): whatever the batch and the key names,
\* those that are no column of the batch included, the normalisation and the
\* cleaning of lines 133-162 end without an exception.
C19_NormalizerNeverRaises ==
    \A r \in Runs :
        run[r].outcome \notin {"KeyError:dropna", "TypeError:json.dumps"}

(***************************************************************************)
(* Overlapping runs (SpecOverlap): run A is a page of finnhub_ingest and   *)
(* run B a page of news_ingest, each started by its own request; the steps *)
(* of the two calls interleave freely.  Both sources write news_articles   *)
(* through the staging table news_articles_staging, which is the one       *)
(* staging table of the state.                                             *)
(***************************************************************************)
Sources == {"finnhub", "news", "yahoo", "fred", "market", "reddit", "youtube"}

\* The staging_table each source passes to upsert_to_bq.
staging_table ==
    [s \in Sources |->
        CASE s \in {"finnhub", "news", "yahoo"} -> "news_articles_staging"
          [] s = "fred" -> "macro_indicators_staging"
          [] s = "market" -> "market_prices_staging"
          [] s = "reddit" -> "reddit_posts_staging"
          [] s = "youtube" -> "youtube_comments_staging"]

SourceOf == [r \in Runs |-> IF r = "A" THEN "finnhub" ELSE "news"]

OverlapRows ==
    {[id |-> Str(i), amount |-> Str(a), ingested_at |-> Ts(1)] :
        i \in {"a", "7"}, a \in {"12.5", "13.0"}}

OverlapCalls ==
    Args({Df({"id", "amount", "ingested_at"}, <<row>>) : row \in OverlapRows},
         {{"id"}}, {NewsSchema})

InitOverlap ==
    /\ staging_table[SourceOf["A"]] = staging_table[SourceOf["B"]]
    /\ InitTables({NewsSchema})

NextOverlap ==
    \/ Call("A", OverlapCalls)
    \/ Proceed("A")
    \/ Call("B", OverlapCalls)
    \/ Proceed("B")

SpecOverlap == InitOverlap /\ [][NextOverlap]_vars

\* The staging table that run r loads.
OwnStaged(r) ==
    staged_by(run[r].df0, run[r].key_fields, run[r].schema, live, run[r].now)

\* Run r was in progress while another run was.
Overlapped(r) ==
    \/ run[r].concurrent # {}
    \/ \E q \in Runs \ {r} : r \in run[q].concurrent

\* Some row of T has the key of row s.
HasKeyOf(T, s, key_fields) ==
    \E n \in DOMAIN T : on_clause(T[n], s, key_fields)

\* C16 (sources do not share a staging table): the runs of two different
\* sources, however they interleave, each merge exactly the rows they staged,
\* and every row a run staged has its key in the target once the run is
\* applied.
C16_SourcesIsolated ==
    \A r \in Runs :
        (Applied(r) /\ \A q \in Runs \ {r} : SourceOf[q] # SourceOf[r]) =>
            /\ run[r].read = OwnStaged(r)
            /\ \A i \in DOMAIN OwnStaged(r).rows :
                  HasKeyOf(target, OwnStaged(r).rows[i], run[r].key_fields)

\* C17 (runs on one target and staging pair are safe exactly when
\* serialised): the MERGE of a run that overlapped no other run read exactly
\* the staging table that run loaded.  (The witness is the unsafe
\* interleaving of two overlapping runs, which nothing in the call excludes.)
C17_SerializedRunsReadOwnRows ==
    \A r \in Runs :
        (run[r].merged = 1 /\ ~Overlapped(r)) => run[r].read = OwnStaged(r)

\* load A, load B, merge A, merge B: both runs are applied, the MERGE of A
\* read the rows B staged, and the row of A is not in the target.
C17_Witness ==
    /\ Applied("A") /\ Applied("B")
    /\ Overlapped("A")
    /\ run["A"].read = OwnStaged("B")
    /\ run["A"].read # OwnStaged("A")
    /\ \A i \in DOMAIN OwnStaged("A").rows :
          ~HasKeyOf(target, OwnStaged("A").rows[i], run["A"].key_fields)

(***************************************************************************)
(* What the caller is left with (Spec).                                    *)
(***************************************************************************)
\* C18 (the caller's batch is not mutated): after a call, whatever its
\* outcome, the frame object the caller passed has the columns and the cells
\* it had before the call.
C18_CallerBatchUnchanged ==
    \A r \in Runs : Started(r) => run[r].caller_df = run[r].df0

\* The call returned to its caller without raising.
Returned(r) == run[r].pc = "done" /\ run[r].outcome \in Skipped \cup {"applied"}

\* finnhub_ingest.ingest_page: the count the caller reports once the call has
\* returned.
ingest_page(r) == Len(run[r].df0.rows)

\* The rows the MERGE of run r took from the staging table: one per key.
rows_merged(r) ==
    Cardinality({KeyOf(run[r].read.rows[i], run[r].key_fields) :
                    i \in DOMAIN run[r].read.rows})

\* C20 (the outcome is returned): a call that does not raise returns a value
\* that carries a status and the row counts, not None, and the count its
\* caller reports as ingested is the count of the rows that were merged.
C20_OutcomeReturned ==
    \A r \in Runs :
        Returned(r) =>
            /\ run[r].returned # "None"
            /\ Applied(r) => ingest_page(r) = rows_merged(r)

(***************************************************************************)
(* The MERGE over a target that holds rows (SpecMerge): one call with key  *)
(* [id]; the batch may repeat a key, bring a key the target has or one it  *)
(* lacks, carry an amount that does not parse, or carry the key column     *)
(* alone; the caller may pass a schema that declares DATETIME where the    *)
(* target declares TIMESTAMP.                                              *)
(***************************************************************************)
OverrideSchema ==
    Schema([id |-> Field("STRING", "NULLABLE"),
            amount |-> Field("FLOAT64", "NULLABLE"),
            published_at |-> Field("DATETIME", "NULLABLE"),
            ingested_at |-> Field("DATETIME", "NULLABLE")])

NewsTarget ==
    <<[id |-> Str("a"), amount |-> FloatV(90), published_at |-> Ts(1),
       ingested_at |-> Ts(1)],
      [id |-> Str("b"), amount |-> FloatV(70), published_at |-> Ts(2),
       ingested_at |-> Ts(1)]>>

ExampleTarget ==
    <<[id |-> Str("a"), amount |-> FloatV(90), seen_at |-> Ts(1)]>>

MergeRows ==
    {[id |-> Str(i), amount |-> Str(a), ingested_at |-> Ts(2)] :
        i \in {"a", "c"}, a \in {"12.5", "N/A"}}

KeyOnlyRows == {[id |-> Str(i)] : i \in {"a", "c"}}

MergeCalls ==
    Args(Frames({"id", "amount", "ingested_at"}, MergeRows, MaxRows)
           \cup Frames({"id"}, KeyOnlyRows, MaxRows),
         {{"id"}}, {NoSchema, OverrideSchema})

InitMerge ==
    /\ \/ live = NewsSchema /\ target = NewsTarget
       \/ live = ExampleSchema /\ target = ExampleTarget
    /\ staging = EmptyTable
    /\ clock = 0
    /\ run = [r \in Runs |-> Idle]
    /\ job = NoJob /\ fetch = NoFetch

NextMerge == Call("A", MergeCalls) \/ Proceed("A")

SpecMerge == InitMerge /\ [][NextMerge]_vars

\* C21 (the staging schema mirrors the target's): when the call stands at its
\* MERGE, every column of the frame that is a column of the target is
\* declared in the staging table with the type and mode the target declares,
\* also when the caller passed a schema.
C21_StagingMirrorsTarget ==
    \A r \in Runs :
        run[r].pc = "merge" =>
            \A c \in usable_cols(run[r].df, live) \cap DOMAIN staging.fields :
                staging.fields[c] = live.fields[c]

\* Row s of the batch has a key and an amount that is no number.
Unparsable(s) ==
    /\ "amount" \in DOMAIN s
    /\ ~IsBlank(s.id)
    /\ ~IsNumeric(s.amount) /\ ~IsNull(s.amount) /\ ~IsBlank(s.amount)

\* C22 (an unconvertible non-key value): a batch with a row whose key is
\* non-null and whose amount does not parse against FLOAT64 does not fail in
\* the coercion; once the call is applied no row was dropped, that row is in
\* the staging table with amount null and its other columns as given, and
\* when it is the only row of its key the target row of that key holds
\* exactly those values.
C22_UnparsableAmountIsNull ==
    \A r \in Runs :
        (\E i \in DOMAIN run[r].df0.rows : Unparsable(run[r].df0.rows[i])) =>
            /\ run[r].outcome # "Error:coerce"
            /\ Applied(r) =>
                  /\ Len(run[r].read.rows) = Len(run[r].df0.rows)
                  /\ \A i \in DOMAIN run[r].df0.rows :
                        LET s == run[r].df0.rows[i]
                            t == run[r].read.rows[i]
                        IN  Unparsable(s) =>
                              /\ t.amount = NULL
                              /\ t.id = s.id /\ t.ingested_at = s.ingested_at
                              /\ (\A j \in DOMAIN run[r].df0.rows :
                                     run[r].df0.rows[j].id = s.id => j = i)
                                 => \E n \in DOMAIN target :
                                       \A c \in usable_cols(run[r].df, live) :
                                           target[n][c] = t[c]

\* A row of key 'c' with amount 'N/A' was inserted next to a parsed row, with
\* a null amount.
C22_Witness ==
    /\ Applied("A")
    /\ Len(run["A"].df0.rows) = 2
    /\ Unparsable(run["A"].df0.rows[1])
    /\ \E n \in DOMAIN target :
          target[n].id = Str("c") /\ target[n].amount = NULL
    /\ \E n \in DOMAIN target :
          target[n].id = Str("a") /\ target[n].amount = FloatV(125)

\* C23 (recency column priority): the column a call ranks the rows of one key
\* by is the first of ingested_at, published_at, created_at that the batch
\* handed to the call carries, whenever the target has that column; and once
\* the call is applied, the target row of every staged key holds a value of
\* that column no smaller than that of any staged row of the key.  A batch
\* with two published_at and no ingested_at is such a call.
C23_RecencyPriority ==
    \A r \in Runs :
        LET rc == rn_order(run[r].df0.cols)
            keys == run[r].key_fields
            S == run[r].read.rows
        IN  (rc # "" /\ rc \in Names(live)) =>
              /\ run[r].pc = "merge" =>
                    rn_order(usable_cols(run[r].df, live)) = rc
              /\ Applied(r) =>
                    \A i \in DOMAIN S :
                        ~NullIn(S[i], keys) =>
                            \E n \in DOMAIN target :
                                /\ on_clause(target[n], S[i], keys)
                                /\ ~sorts_before(S[i], target[n], rc)

\* The staged rows a MERGE of run r may have kept, one per key: every choice
\* the ranking allows.
KeptRows(r) ==
    LET S == run[r].read.rows
        usable == usable_cols(run[r].df, live)
    IN  {source_rows(S, pick) :
            pick \in staging_select(S, run[r].key_fields, rn_order(usable))}

\* C24 (merge semantics): once a call is applied there is a choice of one
\* staged row per key such that every row the target had whose key equals a
\* kept row's holds that row's value in every usable non-key column, every
\* kept row whose key matched no target row is now exactly one new row with
\* its values in all usable columns, and the target has no other new row.
C24_MergeSemantics ==
    \A r \in Runs :
        Applied(r) =>
            LET T == run[r].before.target
                keys == run[r].key_fields
                usable == usable_cols(run[r].df, live)
                Unmatched(K, j) ==
                    \A n \in DOMAIN T : ~on_clause(T[n], K[j], keys)
                New == {n \in DOMAIN target : n > Len(T)}
            IN  \E K \in KeptRows(r) :
                  /\ \A n \in DOMAIN T : \A j \in DOMAIN K :
                        on_clause(T[n], K[j], keys) =>
                            \A c \in usable \ keys : target[n][c] = K[j][c]
                  /\ \A j \in DOMAIN K :
                        Unmatched(K, j) =>
                            Cardinality({n \in New :
                                \A c \in usable : target[n][c] = K[j][c]}) = 1
                  /\ Cardinality(New) =
                        Cardinality({j \in DOMAIN K : Unmatched(K, j)})
                  /\ Len(target) >= Len(T)

\* A call updated the row of key 'a' and inserted a row of key 'c'.
C24_Witness ==
    /\ Applied("A")
    /\ live = NewsSchema
    /\ Len(target) = 3
    /\ target[1].amount = FloatV(125)
    /\ target[1].ingested_at = Ts(2)
    /\ target[3].id = Str("c")

\* C27 (frame of a successful merge): once a call is applied, every row the
\* target had keeps its place, its key columns and every column that is not a
\* usable column; a row whose key equals no staged row's is unchanged in
\* every column; and when every usable column is a key column no row the
\* target had is changed at all.
C27_MergeFrame ==
    \A r \in Runs :
        Applied(r) =>
            LET T == run[r].before.target
                keys == run[r].key_fields
                usable == usable_cols(run[r].df, live)
                S == run[r].read.rows
            IN  /\ Len(target) >= Len(T)
                /\ \A n \in DOMAIN T :
                      /\ \A c \in DOMAIN T[n] :
                            (c \in keys \/ c \notin usable) =>
                                target[n][c] = T[n][c]
                      /\ (\A i \in DOMAIN S : ~on_clause(T[n], S[i], keys))
                            => target[n] = T[n]
                      /\ usable \subseteq keys => target[n] = T[n]

\* A call updated the row of key 'a', which kept its published_at, and left
\* the row of key 'b' alone.
C27_Witness ==
    /\ Applied("A")
    /\ live = NewsSchema
    /\ target[1].amount # NewsTarget[1].amount
    /\ target[1].published_at = Ts(1)
    /\ target[2] = NewsTarget[2]

\* A call whose only usable column is the key found key 'a' in the target
\* and inserted key 'c'.
C27_WitnessInsertOnly ==
    /\ Applied("A")
    /\ usable_cols(run["A"].df, live) = {"id"}
    /\ Len(run["A"].read.rows) = 2
    /\ Len(target) = 2
    /\ target[1] = ExampleTarget[1]

\* C25 (ordering inside one call): a call submits its load at most once and
\* its MERGE at most once, and stands at or past its MERGE only when its own
\* load succeeded before; a call whose load failed has ended with the load's
\* error, never submitted a MERGE and returned nothing, and as long as no
\* later call ran the target and the staging table are as the call found
\* them, the staging table still holding what the previous run loaded.
C25_MergeOnlyAfterLoad ==
    \A r \in Runs :
        /\ run[r].loaded <= 1 /\ run[r].merged <= 1
        /\ (run[r].pc = "merge" \/ run[r].merged = 1) => LoadedOk(r)
        /\ run[r].failed = "load" =>
              /\ run[r].pc = "done"
              /\ run[r].outcome = "Error:load"
              /\ run[r].message = <<run[r].error>>
              /\ run[r].merged = 0
              /\ run[r].returned = ""
              /\ Latest(r) => Untouched(r)

\* The load of run B failed after run A was applied: the staging table still
\* holds the rows of run A.
C25_Witness ==
    /\ Applied("A")
    /\ run["B"].failed = "load"
    /\ Len(run["B"].df.rows) > 0
    /\ staging.rows # <<>>
    /\ staging = run["A"].read

\* Run r is past the coercion loop of a call over a target whose column
\* value is REPEATED.
CoercedRepeated(r) ==
    /\ "value" \in Names(live) /\ live.fields.value.mode = "REPEATED"
    /\ run[r].fetched = 1 /\ run[r].failed # "get_table"
    /\ "value" \in run[r].df0.cols

\* C26 (REPEATED comes before the declared type): whatever type a REPEATED
\* column declares, the coercion does not raise and keeps every row; every
\* coerced cell is a sequence of strings and never null: the empty sequence
\* for None/NaN, the stringified elements for a list, and the one string of
\* the value for any other cell, with no numeric or timestamp parsing.
C26_RepeatedBeforeType ==
    \A r \in Runs :
        CoercedRepeated(r) =>
            /\ run[r].outcome # "Error:coerce"
            /\ Len(run[r].df.rows) = Len(run[r].df0.rows)
            /\ \A i \in DOMAIN run[r].df0.rows :
                  LET v == run[r].df0.rows[i].value
                      x == run[r].df.rows[i].value
                  IN  /\ ~IsNull(x)
                      /\ x.k = "list"
                      /\ \A n \in DOMAIN x.v : IsStr(x.v[n])
                      /\ v = NoneV => x.v = <<>>
                      /\ v.k = "list" =>
                            /\ Len(x.v) = Len(v.v)
                            /\ \A n \in DOMAIN v.v :
                                  x.v[n] = IF IsStr(v.v[n]) THEN v.v[n]
                                           ELSE StrOf(v.v[n])
                      /\ (v # NoneV /\ v.k # "list") =>
                            x.v = <<IF IsStr(v) THEN v ELSE StrOf(v)>>

\* The integer 7 under a column declared INT64 REPEATED went to the MERGE as
\* the one-element sequence of its text.
C26_Witness ==
    /\ live.fields.value = Field("INT64", "REPEATED")
    /\ CoercedRepeated("A")
    /\ run["A"].pc = "merge"
    /\ run["A"].df0.rows[1].value = IntV(7)
    /\ run["A"].df.rows[1].value = Lst(<<StrOf(IntV(7))>>)

(***************************************************************************)
(* The HTTP entry point and the scripts it runs (SpecIngest).  ingest      *)
(* reads the source, maps it to a script and runs the script as a          *)
(* subprocess; the script cuts its rows into pages and upserts them; the   *)
(* response is 200 when the exit code is 0 and 500 otherwise.              *)
(***************************************************************************)
MaxPages == 3
MaxPageSize == 2

\* main.py lines 20-28.
SCRIPT_MAP ==
    [s \in Sources |->
        CASE s = "fred" -> "fred_ingest.py"
          [] s = "market" -> "market_ingest.py"
          [] s = "news" -> "news_ingest.py"
          [] s = "reddit" -> "reddit_ingest.py"
          [] s = "youtube" -> "youtube_ingest.py"
          [] s = "finnhub" -> "finnhub_ingest.py"
          [] s = "yahoo" -> "yahoonews_ingest.py"]

\* The source parameter of the requests of the model: absent, unknown, a
\* source as listed, or one in capitals with a blank.
SourceParams == Sources \cup {"", "bogus", "FRED "}

\* source.lower().strip()
lower_strip(source) == IF source = "FRED " THEN "fred" ELSE source

\* The scripts that call upsert_to_bq inside try/except Exception and go on.
CatchesUpsert == {"fred", "finnhub", "news", "reddit", "youtube"}

\* The scripts of the page-wise loop.
PageWise == {"reddit", "youtube", "fred", "finnhub"}

\* The pages a script may cut its rows into, by their sizes: none when it
\* found no rows.
PageLists == BoundedSeq(1..MaxPageSize, MaxPages)

\* What one call of upsert_to_bq may do, as the call-level model has it.
UpsertOutcomes ==
    {"applied", "skipped:all_dropped", "RuntimeError:get_table", "Error:load",
     "Error:merge"}

upsert_raises(outcome) == outcome \notin Skipped \cup {"applied"}

\* main.py lines 80-103: the source is read and mapped; 400 when it is
\* missing or unknown.
Ingest(param) ==
    /\ job.pc = "idle"
    /\ LET source == lower_strip(param)
       IN  IF param = "" \/ source \notin DOMAIN SCRIPT_MAP
           THEN job' = [job EXCEPT !.pc = "responded", !.status = 400]
           ELSE job' = [job EXCEPT !.pc = "script", !.source = source,
                                   !.script = SCRIPT_MAP[source]]
    /\ UNCHANGED <<live, target, staging, clock, run, fetch>>

\* main.py lines 56-65: subprocess.run raises.
StartFails ==
    /\ job.pc = "script"
    /\ job' = [job EXCEPT !.pc = "exited", !.exit_code = -1]
    /\ UNCHANGED <<live, target, staging, clock, run, fetch>>

\* The script raises before its first upsert (a missing key of the
\* environment, raise_for_status at finnhub_ingest.py line 98).
ScriptRaises ==
    /\ job.pc = "script"
    /\ job' = [job EXCEPT !.pc = "exited", !.exit_code = 1]
    /\ UNCHANGED <<live, target, staging, clock, run, fetch>>

\* The script fetched its rows and cut them into pages (finnhub_ingest.py
\* lines 146-150); market and yahoo upsert all their rows in one call.
ScriptPages ==
    /\ job.pc = "script"
    /\ \E pages \in PageLists :
          /\ job.source \notin CatchesUpsert => Len(pages) <= 1
          /\ job' = [job EXCEPT !.pc = "pages", !.pages = pages]
    /\ UNCHANGED <<live, target, staging, clock, run, fetch>>

\* IngestPage with the loop left at the first page whose upsert raises.
IngestPageStops ==
    /\ job.pc = "pages"
    /\ job.idx < Len(job.pages)
    /\ \E outcome \in UpsertOutcomes :
          LET idx == job.idx + 1
              bad == upsert_raises(outcome)
              ingested_count == IF bad THEN 0 ELSE job.pages[idx]
          IN  job' = [job EXCEPT
                  !.idx = idx,
                  !.upserted = Append(@, idx),
                  !.raised = Append(@, bad),
                  !.counts = Append(@, ingested_count),
                  !.total_ingested = @ + ingested_count,
                  !.pc = IF bad THEN "exited" ELSE @,
                  !.exit_code = IF bad THEN 1 ELSE @]
    /\ UNCHANGED <<live, target, staging, clock, run, fetch>>

\* One turn of the loop over the pages (finnhub_ingest.py lines 152-155 with
\* ingest_page, lines 65-77): the page is upserted; where the script catches
\* the exception the page counts 0 and the loop goes on, elsewhere
\* (market_ingest.py line 73) the exception ends the script.
IngestPage ==
    /\ job.pc = "pages"
    /\ job.idx < Len(job.pages)
    /\ \E outcome \in UpsertOutcomes :
          LET idx == job.idx + 1
              bad == upsert_raises(outcome)
              caught == job.source \in CatchesUpsert
              ingested_count == IF bad THEN 0 ELSE job.pages[idx]
          IN  job' = [job EXCEPT
                  !.idx = idx,
                  !.upserted = Append(@, idx),
                  !.raised = Append(@, bad),
                  !.counts = Append(@, ingested_count),
                  !.total_ingested = @ + ingested_count,
                  !.pc = IF bad /\ ~caught THEN "exited" ELSE @,
                  !.exit_code = IF bad /\ ~caught THEN 1 ELSE @]
    /\ UNCHANGED <<live, target, staging, clock, run, fetch>>

\* The loop is over and main returns: the interpreter exits with 0.
ScriptEnd ==
    /\ job.pc = "pages"
    /\ job.idx = Len(job.pages)
    /\ job' = [job EXCEPT !.pc = "exited", !.exit_code = 0]
    /\ UNCHANGED <<live, target, staging, clock, run, fetch>>

\* main.py lines 106-119.
Respond ==
    /\ job.pc = "exited"
    /\ job' = [job EXCEPT
                  !.pc = "responded",
                  !.status = IF job.exit_code = 0 THEN 200 ELSE 500]
    /\ UNCHANGED <<live, target, staging, clock, run, fetch>>

InitIngest == InitTables({NewsSchema})

NextIngest ==
    \/ \E param \in SourceParams : Ingest(param)
    \/ StartFails
    \/ ScriptRaises
    \/ ScriptPages
    \/ IngestPage
    \/ ScriptEnd
    \/ Respond

SpecIngest == InitIngest /\ [][NextIngest]_vars

\* Some upsert of the job raised.
SomeUpsertRaised == \E i \in DOMAIN job.raised : job.raised[i]

\* C28 (the status of the response): for a valid source the response is 200
\* only when no upsert of the run raised, and 500 whenever the script failed,
\* an upsert that ended in error included.
C28_StatusTellsUpsertFailure ==
    (job.pc = "responded" /\ job.source \in Sources) =>
        /\ job.status \in {200, 500}
        /\ job.status = 200 => ~SomeUpsertRaised
        /\ (job.exit_code # 0 \/ SomeUpsertRaised) => job.status = 500

RECURSIVE SumOfPages(_, _, _)
\* The sizes of the first n pages whose upsert did not raise, added up.
SumOfPages(pages, raised, n) ==
    IF n = 0 THEN 0
    ELSE SumOfPages(pages, raised, n - 1)
           + (IF raised[n] THEN 0 ELSE pages[n])

\* C29 (page-wise ingestion): in reddit, youtube, fred and finnhub the pages
\* are handed to upsert_to_bq one at a time in the order of their index, each
\* once; a page whose upsert raised counted 0 and the loop went on to the last
\* page; the total reported is the sum of the sizes of the pages whose upsert
\* did not raise.
C29_PageWise ==
    (job.source \in PageWise /\ job.pc \in {"pages", "exited", "responded"}) =>
        /\ job.idx <= Len(job.pages)
        /\ job.upserted = [n \in 1..job.idx |-> n]
        /\ Len(job.raised) = job.idx /\ Len(job.counts) = job.idx
        /\ \A n \in 1..job.idx :
              job.counts[n] = IF job.raised[n] THEN 0 ELSE job.pages[n]
        /\ job.total_ingested = SumOfPages(job.pages, job.raised, job.idx)
        /\ (job.pc # "pages" /\ job.pages # <<>>) =>
              /\ job.idx = Len(job.pages)
              /\ job.exit_code = 0

\* reddit ran three pages; the upsert of the second raised and the third was
\* still upserted.
C29_Witness ==
    /\ job.pc = "responded"
    /\ job.source = "reddit"
    /\ job.pages = <<2, 1, 2>>
    /\ job.raised = <<FALSE, TRUE, FALSE>>
    /\ job.upserted = <<1, 2, 3>>
    /\ job.total_ingested = 4

(***************************************************************************)
(* fetch_series of fred_ingest.py (SpecFetch): up to max_retries requests, *)
(* each answered with observations or failing with a RequestException.     *)
(***************************************************************************)
MaxRetries == 3
MaxObs == 2

\* fred_ingest.py lines 17-23.
SERIES == {"CPIAUCSL", "FEDFUNDS", "PAYEMS", "UNRATE", "DCOILWTICO"}

\* The observations of a response: a value that is a number with a date, the
\* value '.', a value that is no number, and a number with no date.
Observation ==
    {[value |-> "1.5", date |-> "2024-01-01"],
     [value |-> ".", date |-> "2024-01-01"],
     [value |-> "x", date |-> "2024-01-01"],
     [value |-> "1.5", date |-> ""]}

Responses == BoundedSeq(Observation, MaxObs)

\* float(raw_value) raises on text that is no number.
float_raises(raw_value) == raw_value # "1.5"

\* lines 61-69: the observation makes a row.
IsRow(o) ==
    /\ o.value \notin {"", ".", "NaN"}
    /\ o.date \notin {"", "."}
    /\ ~float_raises(o.value)

\* lines 55-84: the rows of the table built from a response.
rows_of(series_id, obs) ==
    LET kept == SelectSeq(obs, IsRow)
    IN  [n \in DOMAIN kept |->
            [series_id |-> series_id, observation_date |-> kept[n].date,
             value |-> kept[n].value]]

Get(ok) == [e |-> "get", ok |-> ok, s |-> 0]
Sleep(s) == [e |-> "sleep", ok |-> FALSE, s |-> s]

\* lines 32-42: the call starts with backoff 1.
FetchSeries(series_id, max_retries) ==
    /\ fetch.pc = "idle"
    /\ fetch' = [fetch EXCEPT !.pc = "try", !.series_id = series_id,
                              !.max_retries = max_retries, !.backoff = 1]
    /\ UNCHANGED <<live, target, staging, clock, run, job>>

\* lines 43-94: the request of this attempt succeeds and its table is
\* returned.
AttemptOk ==
    /\ fetch.pc = "try"
    /\ fetch.attempt < fetch.max_retries
    /\ \E obs \in Responses :
          fetch' = [fetch EXCEPT !.pc = "done", !.attempt = @ + 1,
                                 !.log = Append(@, Get(TRUE)),
                                 !.obs = obs,
                                 !.rows = rows_of(fetch.series_id, obs)]
    /\ UNCHANGED <<live, target, staging, clock, run, job>>

\* AttemptFails sleeping one second before every retry.
AttemptFailsFlatBackoff ==
    /\ fetch.pc = "try"
    /\ fetch.attempt < fetch.max_retries
    /\ LET attempt == fetch.attempt + 1
       IN  IF attempt = fetch.max_retries
           THEN fetch' = [fetch EXCEPT !.pc = "done", !.attempt = attempt,
                                       !.log = Append(@, Get(FALSE)),
                                       !.rows = <<>>]
           ELSE fetch' = [fetch EXCEPT
                             !.attempt = attempt,
                             !.log = @ \o <<Get(FALSE), Sleep(1)>>]
    /\ UNCHANGED <<live, target, staging, clock, run, job>>

\* lines 96-104: the request raises a RequestException: the last attempt
\* returns the empty table, any other sleeps backoff seconds and doubles it.
AttemptFails ==
    /\ fetch.pc = "try"
    /\ fetch.attempt < fetch.max_retries
    /\ LET attempt == fetch.attempt + 1
       IN  IF attempt = fetch.max_retries
           THEN fetch' = [fetch EXCEPT !.pc = "done", !.attempt = attempt,
                                       !.log = Append(@, Get(FALSE)),
                                       !.rows = <<>>]
           ELSE fetch' = [fetch EXCEPT
                             !.attempt = attempt,
                             !.log = @ \o <<Get(FALSE), Sleep(fetch.backoff)>>,
                             !.backoff = @ * 2]
    /\ UNCHANGED <<live, target, staging, clock, run, job>>

InitFetch == InitTables({NewsSchema})

NextFetch ==
    \/ \E series_id \in SERIES, max_retries \in 1..MaxRetries :
          FetchSeries(series_id, max_retries)
    \/ AttemptOk
    \/ AttemptFails

SpecFetch == InitFetch /\ [][NextFetch]_vars

\* The places of the log that hold a request, and those that hold a sleep.
Gets == {n \in DOMAIN fetch.log : fetch.log[n].e = "get"}
Sleeps == {n \in DOMAIN fetch.log : fetch.log[n].e = "sleep"}

\* 2 to the power n.
RECURSIVE Pow2(_)
Pow2(n) == IF n = 0 THEN 1 ELSE 2 * Pow2(n - 1)

\* C30 (bounded retry): a call of fetch_series with max_retries >= 1 makes at
\* most max_retries requests and none after one that succeeded; it sleeps
\* only right after a failed request that another request follows, 1, 2, 4,
\* ... seconds; once it has returned, the table is the rows of the request
\* that succeeded, or the empty table after max_retries failed requests.
C30_BoundedRetry ==
    fetch.pc # "idle" =>
        /\ Cardinality(Gets) = fetch.attempt
        /\ fetch.attempt <= fetch.max_retries
        /\ \A n \in Gets : fetch.log[n].ok => n = Len(fetch.log)
        /\ \A n \in Sleeps :
              /\ n > 1 /\ fetch.log[n - 1] = Get(FALSE)
              /\ fetch.log[n].s = Pow2(Cardinality({m \in Sleeps : m < n}))
              /\ fetch.pc = "done" => n < Len(fetch.log)
              /\ n < Len(fetch.log) => fetch.log[n + 1].e = "get"
        /\ \A n \in Gets :
              (~fetch.log[n].ok /\ n < Len(fetch.log)) => n + 1 \in Sleeps
        /\ fetch.pc = "done" =>
              /\ fetch.log # <<>>
              /\ IF fetch.log[Len(fetch.log)] = Get(TRUE)
                 THEN fetch.rows = rows_of(fetch.series_id, fetch.obs)
                 ELSE /\ fetch.attempt = fetch.max_retries
                      /\ fetch.rows = <<>>
        /\ fetch.pc = "try" => fetch.attempt < fetch.max_retries

\* With max_retries 3 the third request succeeded after sleeps of 1 and 2
\* seconds and its one valid observation was returned.
C30_Witness ==
    /\ fetch.pc = "done"
    /\ fetch.max_retries = 3
    /\ fetch.log = <<Get(FALSE), Sleep(1), Get(FALSE), Sleep(2), Get(TRUE)>>
    /\ Len(fetch.obs) = 2 /\ Len(fetch.rows) = 1

\* Three requests failed: the empty table was returned and nothing slept
\* after the last.
C30_WitnessGaveUp ==
    /\ fetch.pc = "done"
    /\ fetch.max_retries = 3
    /\ fetch.log = <<Get(FALSE), Sleep(1), Get(FALSE), Sleep(2), Get(FALSE)>>
    /\ fetch.rows = <<>>
=============================================================================
